---------------------------- MODULE Spec2Model ----------------------------
(***************************************************************************)
(* Customer churn pipeline: stage 6 (scripts/transform_store.py: feature   *)
(* engineering, column cap, SQLite persistence) and the feature store CLI  *)
(* (scripts/feature_store.py: register, list, training, online).           *)
(*                                                                         *)
(* A table (pandas DataFrame) is a record                                  *)
(*   [cols : sequence of column names, dtype : name -> dtype tag,          *)
(*    rows : sequence of (name -> cell value)].                            *)
(* A cell value is a record [k, n, d, s]: a number n/d (floats are kept as *)
(* exact rationals), a string s, NaN, +/-infinity or a boolean.            *)
(***************************************************************************)
EXTENDS Integers, Sequences, FiniteSets, TLC

(***************************************************************************)
(* Cell values                                                             *)
(***************************************************************************)
Abs(x) == IF x < 0 THEN -x ELSE x

RECURSIVE Gcd(_, _)
Gcd(a, b) == IF b = 0 THEN a ELSE Gcd(b, a % b)

Num(n, d) ==
    LET g == Gcd(Abs(n), Abs(d))
        sg == IF d < 0 THEN -1 ELSE 1
    IN  [k |-> "num", n |-> (sg * n) \div g, d |-> Abs(d) \div g, s |-> ""]

IntV(n) == [k |-> "num", n |-> n, d |-> 1, s |-> ""]
Str(s) == [k |-> "str", n |-> 0, d |-> 1, s |-> s]
NaN == [k |-> "nan", n |-> 0, d |-> 1, s |-> ""]
Inf(sgn) == [k |-> "inf", n |-> sgn, d |-> 1, s |-> ""]
Bool(b) == [k |-> "bool", n |-> IF b THEN 1 ELSE 0, d |-> 1, s |-> ""]

IsNum(v) == v.k = "num"
IsNaN(v) == v.k = "nan"
IsInf(v) == v.k = "inf"
IsStr(v) == v.k = "str"
IsBool(v) == v.k = "bool"
Sign(n) == IF n < 0 THEN -1 ELSE IF n > 0 THEN 1 ELSE 0

\* float(x) of a numeric or boolean cell: booleans count as 0/1.
AsFloat(v) == IF IsBool(v) THEN IntV(v.n) ELSE v

\* a * b on float64 cells (NaN propagates, inf * 0 is NaN).
Mul(a, b) ==
    IF IsNaN(a) \/ IsNaN(b) THEN NaN
    ELSE IF IsInf(a) \/ IsInf(b)
         THEN IF Sign(a.n) * Sign(b.n) = 0 THEN NaN
              ELSE Inf(Sign(a.n) * Sign(b.n))
         ELSE Num(a.n * b.n, a.d * b.d)

\* a / b on float64 cells under np.errstate(divide="ignore", invalid="ignore"):
\* x/0 is +/-inf, 0/0 and inf/inf are NaN, x/inf is 0.
TrueDiv(a, b) ==
    IF IsNaN(a) \/ IsNaN(b) THEN NaN
    ELSE IF IsInf(a) THEN (IF IsInf(b) THEN NaN
                           ELSE Inf(a.n * (IF b.n < 0 THEN -1 ELSE 1)))
    ELSE IF IsInf(b) THEN IntV(0)
    ELSE IF b.n = 0 THEN (IF a.n = 0 THEN NaN ELSE Inf(Sign(a.n)))
    ELSE Num(a.n * b.d, a.d * b.n)

\* a + b on float64 cells (inf + -inf is NaN).
Add(a, b) ==
    IF IsNaN(a) \/ IsNaN(b) THEN NaN
    ELSE IF IsInf(a) /\ IsInf(b) THEN (IF a.n = b.n THEN a ELSE NaN)
    ELSE IF IsInf(a) THEN a
    ELSE IF IsInf(b) THEN b
    ELSE Num(a.n * b.d + b.n * a.d, a.d * b.d)

\* a <= b for a finite or infinite a and an integer bound b.
LeqInt(a, b) ==
    IF IsInf(a) THEN a.n < 0 ELSE a.n <= b * a.d

(***************************************************************************)
(* Tables                                                                  *)
(***************************************************************************)
Range(s) == {s[i] : i \in DOMAIN s}
InSeq(x, s) == \E i \in DOMAIN s : s[i] = x

RECURSIVE SelectIn(_, _)
\* [c for c in s if c in keep]
SelectIn(s, keep) ==
    IF s = <<>> THEN <<>>
    ELSE IF Head(s) \in keep THEN <<Head(s)>> \o SelectIn(Tail(s), keep)
         ELSE SelectIn(Tail(s), keep)

\* [c for c in s if c not in drop]
SelectNotIn(s, drop) == SelectIn(s, Range(s) \ drop)

EmptyTable == [cols |-> <<>>, dtype |-> <<>>, rows |-> <<>>]
NRows(t) == Len(t.rows)
HasCol(t, c) == InSeq(c, t.cols)
\* df[c] as the sequence of its cells
Col(t, c) == [i \in 1..NRows(t) |-> t.rows[i][c]]

\* df[c] = vals : an existing column is overwritten in place, a new one is
\* appended as the last column.
SetCol(t, c, vals, dt) ==
    [cols  |-> IF HasCol(t, c) THEN t.cols ELSE Append(t.cols, c),
     dtype |-> [x \in Range(t.cols) \cup {c} |-> IF x = c THEN dt ELSE t.dtype[x]],
     rows  |-> [i \in 1..NRows(t) |->
                  [x \in Range(t.cols) \cup {c} |->
                      IF x = c THEN vals[i] ELSE t.rows[i][x]]]]

\* df[c] = scalar
SetConst(t, c, v, dt) == SetCol(t, c, [i \in 1..NRows(t) |-> v], dt)

\* df[cols] : projection and reordering
Project(t, cols) ==
    [cols  |-> cols,
     dtype |-> [x \in Range(cols) |-> t.dtype[x]],
     rows  |-> [i \in 1..NRows(t) |-> [x \in Range(cols) |-> t.rows[i][x]]]]

\* dtype pandas gives a column of numeric cells: int64 only when every cell
\* is an integer, float64 as soon as one is fractional, NaN or infinite.
NumDtype(vals) ==
    IF \A i \in DOMAIN vals : IsNum(vals[i]) /\ vals[i].d = 1
    THEN "int64" ELSE "float64"

\* dtype read_csv infers for a column
InferDtype(vals) ==
    IF \E i \in DOMAIN vals : IsStr(vals[i]) THEN "object"
    ELSE IF \A i \in DOMAIN vals : IsBool(vals[i]) THEN "bool"
    ELSE IF \E i \in DOMAIN vals : IsBool(vals[i]) THEN "object"
    ELSE NumDtype(vals)

\* select_dtypes(include=[np.number]) keeps the int and float columns
IsNumberDtype(dt) == dt \in {"int64", "float64"}

(***************************************************************************)
(* transform_store.py: feature engineering                                 *)
(***************************************************************************)
\* What float()/int() make of the strings the model's tables contain: a
\* numeral, "inf", or anything else (unparsable).
ParseNumeric(s) ==
    CASE s = "0" -> IntV(0)
      [] s = "10" -> IntV(10)
      [] s = "500" -> IntV(500)
      [] s = "inf" -> Inf(1)
      [] s = "-inf" -> Inf(-1)
      [] OTHER -> NaN

\* pd.to_numeric(series, errors="coerce") on one cell
ToNumericSafe(v) == IF IsStr(v) THEN ParseNumeric(v.s) ELSE AsFloat(v)

\* (mutant of SafeDiv: the two branches of np.where exchanged)
SafeDivSwapped(a, b) == IF IsNum(b) /\ b.n = 0 THEN TrueDiv(a, b) ELSE NaN

\* Lines 49-52, np.where(b == 0, np.nan, a / b) on one pair of cells
SafeDiv(a, b) == IF IsNum(b) /\ b.n = 0 THEN NaN ELSE TrueDiv(a, b)

\* astype(str) on one cell of a column of dtype dt
AsTypeStr(v, dt) ==
    CASE IsStr(v) -> v
      [] IsNaN(v) -> Str("nan")
      [] IsInf(v) -> Str(IF v.n > 0 THEN "inf" ELSE "-inf")
      [] IsBool(v) -> Str(IF v.n = 1 THEN "True" ELSE "False")
      [] OTHER -> IF dt = "float64" /\ v.d = 1 THEN Str(ToString(v.n) \o ".0")
                  ELSE IF v.d = 1 THEN Str(ToString(v.n))
                  ELSE Str(ToString(v.n) \o "/" \o ToString(v.d))

\* Series.map({"Yes": 1, "No": 0}) on one cell: a key that is not in the
\* dict maps to NaN.
MapYesNo(v) ==
    IF v = Str("Yes") THEN IntV(1) ELSE IF v = Str("No") THEN IntV(0) ELSE NaN

\* fillna(0) on one cell
FillNa0(v) == IF IsNaN(v) THEN IntV(0) ELSE v

\* astype(int) on one finite cell: truncation toward zero
AsTypeInt(v) == IntV(Sign(v.n) * (Abs(v.n) \div v.d))

\* Lines 75-79. The result is [ok, t]: astype(int) raises on a non-finite
\* value (one that fillna left in place).
NormalizeChurn(t) ==
    LET mapped == IF t.dtype["Churn"] = "object"
                  THEN [i \in 1..NRows(t) |-> MapYesNo(t.rows[i]["Churn"])]
                  ELSE Col(t, "Churn")
        filled == [i \in 1..NRows(t) |-> FillNa0(mapped[i])]
    IN  IF \E i \in 1..NRows(t) : IsInf(filled[i])
        THEN [ok |-> FALSE, t |-> t]
        ELSE [ok |-> TRUE,
              t |-> SetCol(t, "Churn",
                           [i \in 1..NRows(t) |-> AsTypeInt(filled[i])], "int64")]

\* Lines 82-84, for one of the three columns
CoerceCol(t, c) ==
    IF HasCol(t, c)
    THEN LET vals == [i \in 1..NRows(t) |-> ToNumericSafe(t.rows[i][c])]
         IN  SetCol(t, c, vals, NumDtype(vals))
    ELSE t
CoerceNumeric(t) ==
    CoerceCol(CoerceCol(CoerceCol(t, "MonthlyCharges"), "TotalCharges"), "tenure")

\* (mutant of TotalSpendStep: the fallback decided row by row, as
\* TotalCharges.fillna(MonthlyCharges * tenure) would)
TotalSpendRowwise(t) ==
    LET fallback(i) ==
            IF HasCol(t, "MonthlyCharges") /\ HasCol(t, "tenure")
            THEN Mul(t.rows[i]["MonthlyCharges"], t.rows[i]["tenure"])
            ELSE NaN
    IN  SetCol(t, "TotalSpend",
               [i \in 1..NRows(t) |->
                   IF HasCol(t, "TotalCharges") /\ ~IsNaN(t.rows[i]["TotalCharges"])
                   THEN t.rows[i]["TotalCharges"]
                   ELSE fallback(i)],
               "float64")

\* Lines 87-92
TotalSpendStep(t) ==
    IF HasCol(t, "TotalCharges")
       /\ \E i \in 1..NRows(t) : ~IsNaN(t.rows[i]["TotalCharges"])
    THEN SetCol(t, "TotalSpend", Col(t, "TotalCharges"), t.dtype["TotalCharges"])
    ELSE IF HasCol(t, "MonthlyCharges") /\ HasCol(t, "tenure")
    THEN SetCol(t, "TotalSpend",
                [i \in 1..NRows(t) |->
                    Mul(t.rows[i]["MonthlyCharges"], t.rows[i]["tenure"])],
                "float64")
    ELSE SetConst(t, "TotalSpend", NaN, "float64")

\* Lines 95-98
AvgMonthlySpendStep(t) ==
    IF HasCol(t, "tenure")
    THEN SetCol(t, "AvgMonthlySpend",
                [i \in 1..NRows(t) |->
                    SafeDiv(t.rows[i]["TotalSpend"], t.rows[i]["tenure"])],
                "float64")
    ELSE SetConst(t, "AvgMonthlySpend", NaN, "float64")

\* pd.cut(x, bins=[-inf, 6, 12, 24, 48, inf], labels=...) on one cell: the
\* intervals are right-closed, NaN and -inf fall in none of them.
CutTenure(v) ==
    CASE IsNaN(v) -> NaN
      [] IsInf(v) -> IF v.n > 0 THEN Str("48+") ELSE NaN
      [] OTHER -> IF LeqInt(v, 6) THEN Str("0-6")
                  ELSE IF LeqInt(v, 12) THEN Str("7-12")
                  ELSE IF LeqInt(v, 24) THEN Str("13-24")
                  ELSE IF LeqInt(v, 48) THEN Str("25-48")
                  ELSE Str("48+")

\* Lines 101-106
TenureGroupStep(t) ==
    IF HasCol(t, "tenure")
    THEN SetCol(t, "TenureGroup",
                [i \in 1..NRows(t) |-> CutTenure(t.rows[i]["tenure"])], "category")
    ELSE SetConst(t, "TenureGroup", Str("Unknown"), "object")

\* c.endswith("_Yes"), for the column names the model's tables use
EndsWithYes(c) == c \in {"Partner_Yes", "Dependents_Yes", "OnlineBackup_Yes"}

RECURSIVE SumSkipNa(_, _)
\* DataFrame.sum(axis=1) on one row: NaN cells are skipped
SumSkipNa(row, cols) ==
    IF cols = <<>> THEN IntV(0)
    ELSE LET v == AsFloat(row[Head(cols)])
             rest == SumSkipNa(row, Tail(cols))
         IN  IF IsNaN(v) THEN rest ELSE Add(v, rest)

\* Lines 109-113
NumAddonsStep(t) ==
    LET yes_cols == SelectIn(t.cols, {c \in Range(t.cols) : EndsWithYes(c)})
    IN  IF yes_cols # <<>>
        THEN SetCol(t, "NumAddons",
                    [i \in 1..NRows(t) |-> SumSkipNa(t.rows[i], yes_cols)], "float64")
        ELSE SetConst(t, "NumAddons", IntV(0), "float64")

\* Line 116: df.replace([np.inf, -np.inf], np.nan) on every cell of the frame
ReplaceInf(t) ==
    [t EXCEPT !.rows = [i \in 1..NRows(t) |->
        [x \in Range(t.cols) |-> IF IsInf(t.rows[i][x]) THEN NaN ELSE t.rows[i][x]]]]

\* The columns line 119 fills
FilledCols == {"TotalSpend", "AvgMonthlySpend", "NumAddons"}

\* Lines 119-121
FillDerived(t) ==
    [t EXCEPT !.rows = [i \in 1..NRows(t) |->
        [x \in Range(t.cols) |->
            IF x \in FilledCols THEN FillNa0(t.rows[i][x]) ELSE t.rows[i][x]]]]

FrontOrder ==
    <<"customerID", "Churn", "TotalSpend", "AvgMonthlySpend", "TenureGroup", "NumAddons">>

\* Lines 124-126
Reorder(t) ==
    LET front == SelectIn(FrontOrder, Range(t.cols))
        others == SelectNotIn(t.cols, Range(front))
    IN  Project(t, front \o others)

\* Lines 73 and 81-126: everything after the label is normalised
Derive(t) ==
    Reorder(FillDerived(ReplaceInf(NumAddonsStep(TenureGroupStep(
        AvgMonthlySpendStep(TotalSpendStep(CoerceNumeric(t))))))))

\* engineer_features(df): [ok, err, t], err being the exception raised
EngineerFeatures(df) ==
    IF ~HasCol(df, "customerID")
    THEN [ok |-> FALSE, err |-> "ValueError", t |-> EmptyTable]
    ELSE LET t1 == SetCol(df, "customerID",
                          [i \in 1..NRows(df) |->
                              AsTypeStr(df.rows[i]["customerID"], df.dtype["customerID"])],
                          "object")
             c == IF HasCol(t1, "Churn") THEN NormalizeChurn(t1)
                  ELSE [ok |-> TRUE, t |-> t1]
         IN  IF ~c.ok
             THEN [ok |-> FALSE, err |-> "IntCastingNaNError", t |-> EmptyTable]
             ELSE [ok |-> TRUE, err |-> "", t |-> Derive(c.t)]

(***************************************************************************)
(* transform_store.py: column cap and SQLite persistence                   *)
(***************************************************************************)
\* The column limit of the persisted table. The program's value is 950
\* (line 21); the model scales it down, keeping it above the nine names of
\* BaseKeep, so that tables of a dozen columns exceed it.
MAX_SQLITE_COLS == 10

BaseKeep ==
    <<"customerID", "Churn", "TotalSpend", "AvgMonthlySpend", "TenureGroup",
      "NumAddons", "tenure", "MonthlyCharges", "TotalCharges">>

RECURSIVE FillPoolOffByOne(_, _)
\* (mutant of FillPool: > for >=)
FillPoolOffByOne(keep, pool) ==
    IF pool = <<>> \/ Len(keep) > MAX_SQLITE_COLS THEN keep
    ELSE FillPoolOffByOne(Append(keep, Head(pool)), Tail(pool))

RECURSIVE FillPool(_, _)
\* Lines 238-241: append the columns of one pool until the limit is reached
FillPool(keep, pool) ==
    IF pool = <<>> \/ Len(keep) >= MAX_SQLITE_COLS THEN keep
    ELSE FillPool(Append(keep, Head(pool)), Tail(pool))

\* Lines 224-243: the columns to keep, in priority order
KeepCols(t) ==
    LET base_keep == SelectIn(BaseKeep, Range(t.cols))
        numeric_others ==
            SelectIn(t.cols, {c \in Range(t.cols) :
                IsNumberDtype(t.dtype[c]) /\ c \notin Range(base_keep)})
        other_others ==
            SelectNotIn(t.cols, Range(base_keep) \cup Range(numeric_others))
        k1 == FillPool(base_keep, numeric_others)
    IN  IF Len(k1) >= MAX_SQLITE_COLS THEN k1 ELSE FillPool(k1, other_others)

\* Lines 245-249: the table cut to keep_cols when it has more columns
ColumnCap(t) ==
    IF Len(t.cols) > Len(KeepCols(t)) THEN Project(t, KeepCols(t)) ELSE t

\* What to_sql stores for a cell: a boolean goes in as 0/1, NaN as NULL
\* (kept as NaN), text and numbers as they are.
SqlCell(v) == IF IsBool(v) THEN IntV(v.n) ELSE v

\* The stored form of a frame: its columns in order and its rows
SqlTable(t) ==
    [cols |-> t.cols,
     rows |-> [i \in 1..NRows(t) |-> [c \in Range(t.cols) |-> SqlCell(t.rows[i][c])]]]

NoTable == [cols |-> <<>>, rows |-> <<>>]
NoDb == [file |-> FALSE, has_table |-> FALSE, table |-> NoTable, indexes |-> {}]

\* (mutant of ToSqlReplace: if_exists="append")
ToSqlAppend(d, t) ==
    [file |-> TRUE, has_table |-> TRUE,
     table |-> IF d.has_table
               THEN [cols |-> d.table.cols, rows |-> d.table.rows \o SqlTable(t).rows]
               ELSE SqlTable(t),
     indexes |-> d.indexes]

\* Line 137, df.to_sql(table_name, conn, if_exists="replace", index=False):
\* an existing table is dropped, its indexes with it, and the frame's rows
\* go into a new table.
ToSqlReplace(d, t) ==
    [file |-> TRUE, has_table |-> TRUE, table |-> SqlTable(t), indexes |-> {}]

\* Lines 140-145: CREATE INDEX IF NOT EXISTS on customerID and on Churn
CreateIndexes(d, t) ==
    [d EXCEPT !.indexes = @ \cup (Range(t.cols) \cap {"customerID", "Churn"})]

\* The ways write_sqlite ends: "ok", or an sqlite3 / I/O error raised by
\* connect (nothing is touched), by CREATE TABLE (the database file exists
\* and the old table is already dropped) or by the INSERT (the new table
\* exists, its rows are rolled back).
WriteOutcomes == {"ok", "connect", "create", "insert"}

\* Lines 133-147: the store after write_sqlite(df, DB_PATH) ends with outcome
WriteSqlite(d, t, outcome) ==
    CASE outcome = "ok" -> CreateIndexes(ToSqlReplace(d, t), t)
      [] outcome = "connect" -> d
      [] outcome = "create" ->
            [file |-> TRUE, has_table |-> FALSE, table |-> NoTable, indexes |-> {}]
      [] outcome = "insert" ->
            [file |-> TRUE, has_table |-> TRUE,
             table |-> [cols |-> t.cols, rows |-> <<>>], indexes |-> {}]

(***************************************************************************)
(* feature_store.py: catalog and retrieval                                 *)
(***************************************************************************)
EntityId == "customerID"

\* Lines 29-33, PRAGMA table_info: the columns of the table, none when the
\* database holds no such table.
TableColumns(d) == IF d.has_table THEN d.table.cols ELSE <<>>

\* (mutant of MissingFeatures: the first missing name only)
MissingFirstOnly(requested, cols) ==
    LET m == SelectIn(requested, Range(requested) \ Range(cols))
    IN  IF m = <<>> THEN m ELSE <<Head(m)>>

\* Lines 73-74: [f for f in requested if f not in available_cols]
MissingFeatures(requested, cols) ==
    SelectIn(requested, Range(requested) \ Range(cols))

\* Lines 89 and 114: requested = [entity_id] + feats
Requested(feats) == <<EntityId>> \o feats

\* The words SQLite reads in a column name that the query text carries
\* unquoted (", ".join(requested) in lines 92 and 119): a name with a blank
\* in it is read as two words.
SqlWords(name) ==
    IF name = "Contract_One year" THEN <<"Contract_One", "year">> ELSE <<name>>

\* One item of the SELECT list as SQLite resolves it against the table: a
\* single word is that column; two words are "column AS alias"; the column
\* must exist.
SelectItem(name, cols) ==
    LET w == SqlWords(name)
    IN  [ok |-> InSeq(w[1], cols), src |-> w[1], out |-> w[Len(w)]]

RECURSIVE FilterRows(_, _)
\* WHERE customerID IN (?, ..., ?) with the values of ids bound to the
\* placeholders; ids = <<>> stands for a query without WHERE clause
FilterRows(rows, ids) ==
    IF rows = <<>> THEN <<>>
    ELSE IF \E j \in DOMAIN ids : Head(rows)[EntityId] = Str(ids[j])
         THEN <<Head(rows)>> \o FilterRows(Tail(rows), ids)
         ELSE FilterRows(Tail(rows), ids)

NoResult == [cols |-> <<>>, rows |-> <<>>]

\* Lines 92 and 119-120, pd.read_sql: [ok, res]; the result has one column
\* per item of the SELECT list, in the order of the list
RunSelect(requested, d, ids, filtered) ==
    LET items == [i \in DOMAIN requested |-> SelectItem(requested[i], d.table.cols)]
        rows == IF filtered THEN FilterRows(d.table.rows, ids) ELSE d.table.rows
    IN  IF ~d.has_table \/ \E i \in DOMAIN items : ~items[i].ok
        THEN [ok |-> FALSE, res |-> NoResult]
        ELSE [ok |-> TRUE,
              res |-> [cols |-> [i \in DOMAIN items |-> items[i].out],
                       rows |-> [r \in DOMAIN rows |->
                                   [i \in DOMAIN items |-> rows[r][items[i].src]]]]]

\* Line 10
Table == "customers_transformed"

\* Lines 92 and 118-119: the query text, word by word: the requested names
\* as they are, and one "?" per identifier value in the WHERE clause of the
\* online query
QueryText(requested, ids, filtered) ==
    <<"SELECT">> \o requested \o <<"FROM", Table>>
    \o (IF filtered
        THEN <<"WHERE", EntityId, "IN">> \o [i \in 1..Len(ids) |-> "?"]
        ELSE <<>>)

\* Lines 41-53: one listing row per catalog feature, with its presence flag
CatalogRows(features, cols) ==
    [i \in DOMAIN features |->
        [feature |-> features[i], in_db |-> InSeq(features[i], cols)]]

(***************************************************************************)
(* Bounded input tables                                                    *)
(***************************************************************************)
MaxRows == 2
MaxPasses == 2

\* A table with the dtypes pandas infers from the cells
MkTable(cols, rows) ==
    [cols  |-> cols,
     dtype |-> [c \in Range(cols) |-> InferDtype([i \in 1..Len(rows) |-> rows[i][c]])],
     rows  |-> rows]

RowIds == [i \in 1..4 |-> Str(<<"A1", "B2", "C3", "D4">>[i])]

TenureVals == {NaN, Str("abc"), IntV(0), IntV(10), Inf(1)}
TotalChargesVals == {NaN, IntV(500)}
MonthlyChargesVals == {NaN, IntV(50)}
AddonVals == {Bool(TRUE)}
ChurnVals ==
    {Str("Yes"), Str("No"), Str("Maybe"), NaN, IntV(1), IntV(2), Bool(TRUE), Inf(1)}

\* The rows over the columns in present, without the identifier
RowsOver(present) ==
    { [c \in present |->
          CASE c = "tenure" -> a
            [] c = "TotalCharges" -> b
            [] c = "MonthlyCharges" -> m
            [] c = "Partner_Yes" -> y
            [] c = "Churn" -> ch] :
        a \in TenureVals, b \in TotalChargesVals, m \in MonthlyChargesVals,
        y \in AddonVals, ch \in (IF "Churn" \in present THEN ChurnVals ELSE {NaN}) }

\* Every table with the identifier, the columns cols in that order and
\* 1..MaxRows rows
TablesOver(cols) ==
    { MkTable(<<"customerID">> \o cols,
              [i \in DOMAIN body |->
                  [c \in Range(cols) \cup {"customerID"} |->
                      IF c = "customerID" THEN RowIds[i] ELSE body[i][c]]]) :
        body \in UNION { [1..n -> RowsOver(Range(cols))] : n \in 1..MaxRows } }

SpendOrder == <<"Partner_Yes", "tenure", "MonthlyCharges", "TotalCharges">>

\* Tables that vary the inputs of the spend, tenure and add-on features
SpendTables ==
    UNION { TablesOver(SelectIn(SpendOrder, present)) : present \in SUBSET Range(SpendOrder) }

\* Tables that vary the label
ChurnTables == TablesOver(<<"Churn">>)

\* A table without the identifier column
NoIdTables == { MkTable(<<"tenure">>, <<[tenure |-> IntV(10)]>>) }

\* One-row tables with a tenure at and around the edges of the buckets
BucketVals ==
    {IntV(6), IntV(7), IntV(12), IntV(13), IntV(24), IntV(25), IntV(48), IntV(49),
     Num(13, 2)}
TenureTables ==
    { MkTable(<<"customerID", "tenure">>, <<[customerID |-> Str("A1"), tenure |-> v]>>) :
        v \in BucketVals }

EngineerInputs == SpendTables \cup ChurnTables \cup NoIdTables \cup TenureTables

\* The default row of a table that varies its columns only
DefaultCell(c) ==
    CASE c = "customerID" -> Str("A1")
      [] c = "Churn" -> IntV(1)
      [] c = "tenure" -> IntV(10)
      [] c = "MonthlyCharges" -> IntV(50)
      [] c = "TotalCharges" -> IntV(500)
      [] c = "SeniorCitizen" -> IntV(0)
      [] c = "gender_Male" -> IntV(1)
      [] c = "Dependents_Yes" -> IntV(1)
      [] c = "Partner_Yes" -> Bool(TRUE)
      [] c = "Contract_One year" -> Bool(FALSE)
      [] c = "PaymentMethod" -> Str("Mailed check")

LayoutTable(cols) == MkTable(cols, <<[c \in Range(cols) |-> DefaultCell(c)]>>)

\* The column order of the Telco data set, and a shuffled one
TelcoOrder ==
    <<"customerID", "gender_Male", "SeniorCitizen", "Partner_Yes", "Dependents_Yes",
      "tenure", "Contract_One year", "PaymentMethod", "MonthlyCharges",
      "TotalCharges", "Churn">>
ShuffledOrder ==
    <<"PaymentMethod", "TotalCharges", "Churn", "Dependents_Yes", "customerID",
      "Contract_One year", "gender_Male", "MonthlyCharges", "Partner_Yes",
      "tenure", "SeniorCitizen">>

\* Tables that vary the columns and their order (the identifier is there)
WideTables ==
    { LayoutTable(SelectIn(order, present \cup {"customerID"})) :
        order \in {TelcoOrder, ShuffledOrder},
        present \in SUBSET (Range(TelcoOrder) \ {"customerID"}) }

File(t) == [exists |-> TRUE, t |-> t]
NoFile == [exists |-> FALSE, t |-> EmptyTable]

\* The cleaned inputs of the store runs: a two-row table with a label, a
\* table without label and with a blank in a column name, a table without
\* identifier.
StoreInputs ==
    { MkTable(<<"customerID", "tenure", "MonthlyCharges", "TotalCharges", "Churn">>,
              << [customerID |-> Str("A1"), tenure |-> IntV(0),
                  MonthlyCharges |-> IntV(50), TotalCharges |-> NaN, Churn |-> IntV(0)],
                 [customerID |-> Str("B2"), tenure |-> IntV(10),
                  MonthlyCharges |-> IntV(50), TotalCharges |-> IntV(500),
                  Churn |-> IntV(1)] >>),
      MkTable(<<"customerID", "Partner_Yes", "tenure", "Contract_One year">>,
              << ("customerID" :> Str("C3") @@ "Partner_Yes" :> Bool(TRUE)
                  @@ "tenure" :> IntV(49) @@ "Contract_One year" :> Bool(TRUE)) >>),
      MkTable(<<"tenure">>, <<[tenure |-> IntV(10)]>>) }

\* The feature catalogs (feature_store/metadata.json): the names of their
\* entries
NoListing == [exists |-> FALSE, t |-> <<>>]
Catalogs ==
    { NoListing,
      [exists |-> TRUE, t |-> <<"tenure", "TotalSpend", "NotAColumn">>] }

MaxFeatures == 2
MaxIds == 2

\* The names a request may carry
RequestNames == {"customerID", "tenure", "Contract_One year", "NotAColumn"}
RequestIds == {"A1", "ZZ"}
SampleLimits == {1, 5}

SeqsUpTo(S, n) == UNION { [1..k -> S] : k \in 0..n }

(***************************************************************************)
(* State                                                                   *)
(***************************************************************************)
VARIABLES
    df,       \* the table handed to engineer_features
    eng,      \* the results of the successive engineer_features passes on it
    clean,    \* the latest cleaned CSV under data/clean, if any
    db,       \* data/customer_churn.db: the file, the table, its indexes
    catalog,  \* feature_store/metadata.json, if any
    catalog_export,  \* reports/feature_catalog.csv, if any
    last      \* the command that ran last and how it ended

vars == <<df, eng, clean, db, catalog, catalog_export, last>>
storeVars == <<clean, db, catalog, catalog_export, last>>

\* The record of a command: what it was given, what it raised (status is
\* "ok" or the exception class, what names the resource or the check), what
\* it did before ending, its exit status and whether it wrote a log entry;
\* sql and params are the query text and the bound values that pd.read_sql
\* was given.
NoCommand ==
    [cmd |-> "none", status |-> "ok", what |-> "", feats |-> <<>>, ids |-> <<>>,
     missing |-> <<>>, queried |-> FALSE, wrote |-> FALSE, exported |-> FALSE,
     result |-> NoResult, listing |-> <<>>, engineered |-> EmptyTable,
     written |-> EmptyTable, before |-> NoDb, exit |-> 0, logged |-> FALSE,
     sql |-> <<>>, params |-> <<>>]

Raised(cmd, status, what) ==
    [NoCommand EXCEPT !.cmd = cmd, !.status = status, !.what = what, !.exit = 1]

(***************************************************************************)
(* engineer_features as a function: one pass on df, then passes on its own *)
(* output.                                                                 *)
(***************************************************************************)
InitEngineer ==
    /\ df \in EngineerInputs
    /\ eng = <<>>
    /\ clean = NoFile
    /\ db = NoDb
    /\ catalog = NoListing
    /\ catalog_export = NoListing
    /\ last = NoCommand

Engineer ==
    /\ eng = <<>>
    /\ eng' = <<EngineerFeatures(df)>>
    /\ UNCHANGED <<df, storeVars>>

Reengineer ==
    /\ eng # <<>>
    /\ Len(eng) < MaxPasses
    /\ eng[Len(eng)].ok
    /\ eng' = Append(eng, EngineerFeatures(eng[Len(eng)].t))
    /\ UNCHANGED <<df, storeVars>>

NextEngineer == Engineer \/ Reengineer

SpecEngineer == InitEngineer /\ [][NextEngineer]_vars

(***************************************************************************)
(* The commands                                                            *)
(***************************************************************************)
\* transform_store.main, lines 212-284, on the cleaned file cl and the store
\* d, write_sqlite ending with outcome: [db, last]. Every exception is
\* caught, logged ("Stage6 failed") and turned into exit status 1.
MainRun(cl, d, outcome) ==
    LET e == EngineerFeatures(cl.t)
        tr == ColumnCap(e.t)
    IN  IF ~cl.exists
        THEN [db |-> d,
              last |-> [Raised("transform", "FileNotFoundError", "clean")
                            EXCEPT !.logged = TRUE, !.before = d]]
        ELSE IF ~e.ok
        THEN [db |-> d,
              last |-> [Raised("transform", e.err, "engineer")
                            EXCEPT !.logged = TRUE, !.before = d]]
        ELSE [db |-> WriteSqlite(d, tr, outcome),
              last |-> [(IF outcome = "ok"
                         THEN [NoCommand EXCEPT !.cmd = "transform"]
                         ELSE Raised("transform", "OperationalError", outcome))
                            EXCEPT !.engineered = e.t, !.written = tr,
                                   !.wrote = TRUE, !.logged = TRUE, !.before = d]]

\* cmd_register, lines 35-59: [export, last]
RegisterRun(cat, d, export) ==
    IF ~cat.exists
    THEN [export |-> export, last |-> Raised("register", "FileNotFoundError", "catalog")]
    ELSE IF ~d.file
    THEN [export |-> export, last |-> Raised("register", "FileNotFoundError", "db")]
    ELSE LET rows == CatalogRows(cat.t, TableColumns(d))
         IN  [export |-> [exists |-> TRUE, t |-> rows],
              last |-> [NoCommand EXCEPT !.cmd = "register", !.exported = TRUE,
                                         !.listing = rows]]

\* cmd_list, lines 61-71
ListRun(cat, d) ==
    IF ~cat.exists THEN Raised("list", "FileNotFoundError", "catalog")
    ELSE IF ~d.file THEN Raised("list", "FileNotFoundError", "db")
    ELSE [NoCommand EXCEPT !.cmd = "list",
                           !.listing = CatalogRows(cat.t, TableColumns(d))]

\* Lines 85-95 and 111-123, shared by the two retrieval commands: connect,
\* validate the request, run the query, write the result artifact.
Retrieve(cmd, d, feats, ids, filtered) ==
    LET requested == Requested(feats)
        missing == MissingFeatures(requested, TableColumns(d))
        q == RunSelect(requested, d, ids, filtered)
        given == [NoCommand EXCEPT !.cmd = cmd, !.feats = feats, !.ids = ids]
    IN  IF ~d.file
        THEN [given EXCEPT !.status = "FileNotFoundError", !.what = "db", !.exit = 1]
        ELSE IF missing # <<>>
        THEN [given EXCEPT !.status = "ValueError", !.what = "features",
                           !.missing = missing, !.exit = 1]
        ELSE IF ~q.ok
        THEN [given EXCEPT !.status = "DatabaseError", !.what = "query",
                           !.queried = TRUE, !.exit = 1,
                           !.sql = QueryText(requested, ids, filtered),
                           !.params = ids]
        ELSE [given EXCEPT !.queried = TRUE, !.wrote = TRUE, !.result = q.res,
                           !.sql = QueryText(requested, ids, filtered),
                           !.params = ids]

\* cmd_training, lines 78-99
TrainingRun(d, feats) ==
    IF feats = <<>>
    THEN [Raised("training", "ValueError", "empty") EXCEPT !.feats = feats]
    ELSE Retrieve("training", d, feats, <<>>, FALSE)

\* cmd_online, lines 101-127
OnlineRun(d, feats, ids) ==
    IF feats = <<>>
    THEN [Raised("online", "ValueError", "empty") EXCEPT !.feats = feats, !.ids = ids]
    ELSE IF ids = <<>>
    THEN [Raised("online", "ValueError", "empty") EXCEPT !.feats = feats, !.ids = ids]
    ELSE Retrieve("online", d, feats, ids, TRUE)

\* cmd_sample_ids, lines 129-138: SELECT customerID FROM ... LIMIT n
SampleRun(d, n) ==
    LET q == RunSelect(<<EntityId>>, d, <<>>, FALSE)
    IN  IF ~d.file THEN Raised("sample_ids", "FileNotFoundError", "db")
        ELSE IF ~q.ok
        THEN [Raised("sample_ids", "DatabaseError", "query") EXCEPT !.queried = TRUE]
        ELSE [NoCommand EXCEPT !.cmd = "sample_ids", !.queried = TRUE,
                  !.result = [q.res EXCEPT !.rows =
                      SubSeq(q.res.rows, 1,
                             IF n < Len(q.res.rows) THEN n ELSE Len(q.res.rows))]]

(***************************************************************************)
(* Actions                                                                 *)
(***************************************************************************)
\* prepare_data.py writes a new cleaned CSV
StageClean ==
    /\ \E t \in StoreInputs : clean' = File(t) /\ clean' # clean
    /\ UNCHANGED <<df, eng, db, catalog, catalog_export, last>>

TransformMain ==
    /\ \E outcome \in WriteOutcomes :
          /\ db' = MainRun(clean, db, outcome).db
          /\ last' = MainRun(clean, db, outcome).last
    /\ UNCHANGED <<df, eng, clean, catalog, catalog_export>>

CmdRegister ==
    /\ catalog_export' = RegisterRun(catalog, db, catalog_export).export
    /\ last' = RegisterRun(catalog, db, catalog_export).last
    /\ UNCHANGED <<df, eng, clean, db, catalog>>

CmdList ==
    /\ last' = ListRun(catalog, db)
    /\ UNCHANGED <<df, eng, clean, db, catalog, catalog_export>>

CmdTraining ==
    /\ \E feats \in SeqsUpTo(RequestNames, MaxFeatures) :
          last' = TrainingRun(db, feats)
    /\ UNCHANGED <<df, eng, clean, db, catalog, catalog_export>>

CmdOnline ==
    /\ \E feats \in SeqsUpTo(RequestNames, MaxFeatures) :
       \E ids \in SeqsUpTo(RequestIds, MaxIds) :
          last' = OnlineRun(db, feats, ids)
    /\ UNCHANGED <<df, eng, clean, db, catalog, catalog_export>>

CmdSampleIds ==
    /\ \E n \in SampleLimits : last' = SampleRun(db, n)
    /\ UNCHANGED <<df, eng, clean, db, catalog, catalog_export>>

(***************************************************************************)
(* The transform runs and the catalog commands, on a few cleaned inputs    *)
(***************************************************************************)
Init ==
    /\ df = EmptyTable
    /\ eng = <<>>
    /\ clean \in {NoFile} \cup {File(t) : t \in StoreInputs}
    /\ db = NoDb
    /\ catalog \in Catalogs
    /\ catalog_export = NoListing
    /\ last = NoCommand

Next ==
    \/ StageClean
    \/ TransformMain
    \/ CmdRegister
    \/ CmdList

Spec == Init /\ [][Next]_vars

(***************************************************************************)
(* The retrieval commands, on the store that one transform run left        *)
(***************************************************************************)
InitRetrieve ==
    /\ df = EmptyTable
    /\ eng = <<>>
    /\ clean \in {File(t) : t \in StoreInputs}
    /\ \E outcome \in WriteOutcomes : db = MainRun(clean, NoDb, outcome).db
    /\ catalog = NoListing
    /\ catalog_export = NoListing
    /\ last = NoCommand

NextRetrieve ==
    \/ CmdTraining
    \/ CmdOnline
    \/ CmdSampleIds

SpecRetrieve == InitRetrieve /\ [][NextRetrieve]_vars

(***************************************************************************)
(* One transform run on each of many column layouts                        *)
(***************************************************************************)
InitTransform ==
    /\ df = EmptyTable
    /\ eng = <<>>
    /\ clean \in {File(t) : t \in WideTables}
    /\ db = NoDb
    /\ catalog = NoListing
    /\ catalog_export = NoListing
    /\ last = NoCommand

NextTransform == TransformMain

SpecTransform == InitTransform /\ [][NextTransform]_vars

(***************************************************************************)
(* Claims about engineer_features (checked under SpecEngineer)             *)
(***************************************************************************)
DerivedCols == {"TotalSpend", "AvgMonthlySpend", "TenureGroup", "NumAddons"}

\* The outputs engineer_features has produced so far
Outputs == { eng[p].t : p \in { q \in DOMAIN eng : eng[q].ok } }

\* C2: in every row of an output of engineer_features that has a Churn
\* column, Churn is 0 or 1, whatever the input label was (text, number,
\* missing).
C2_ChurnIsBinary ==
    \A t \in Outputs :
        HasCol(t, "Churn") =>
            \A i \in 1..NRows(t) : t.rows[i]["Churn"] \in {IntV(0), IntV(1)}

\* C3: a second pass of engineer_features over its own output leaves the
\* four derived columns of every row as the first pass made them.
C3_Idempotent ==
    (Len(eng) >= 2 /\ eng[2].ok) =>
        \A i \in 1..NRows(eng[1].t) : \A c \in DerivedCols :
            eng[2].t.rows[i][c] = eng[1].t.rows[i][c]

\* C6: every output of engineer_features has the four derived columns, and
\* no row holds a null or an infinity in any of them.
C6_DerivedPresentAndFilled ==
    \A t \in Outputs :
        /\ DerivedCols \subseteq Range(t.cols)
        /\ \A i \in 1..NRows(t) : \A c \in DerivedCols :
               ~IsNaN(t.rows[i][c]) /\ ~IsInf(t.rows[i][c])

\* C10: in every output row AvgMonthlySpend is a finite number; it is
\* TotalSpend / tenure where tenure > 0 (stated as avg * tenure = TotalSpend
\* on the fractions), and 0 where tenure is 0, null or not a column.
C10_AvgMonthlySpend ==
    \A t \in Outputs : \A i \in 1..NRows(t) :
        LET avg == t.rows[i]["AvgMonthlySpend"]
            ts == t.rows[i]["TotalSpend"]
        IN  /\ IsNum(avg)
            /\ IF HasCol(t, "tenure") /\ IsNum(t.rows[i]["tenure"])
                  /\ t.rows[i]["tenure"].n > 0
               THEN LET tn == t.rows[i]["tenure"]
                    IN  /\ IsNum(ts)
                        /\ avg.n * tn.n * ts.d = ts.n * avg.d * tn.d
               ELSE (~HasCol(t, "tenure") \/ IsNaN(t.rows[i]["tenure"])
                        \/ t.rows[i]["tenure"] = IntV(0))
                    => avg = IntV(0)

\* C10 witness: a first-pass output with a row of tenure 10 whose average is
\* 500 / 10 = 50 and a row of tenure 0 whose average is 0.
C10_Witness ==
    /\ Len(eng) = 1 /\ eng[1].ok /\ HasCol(eng[1].t, "tenure")
    /\ \E i \in 1..NRows(eng[1].t) :
          /\ eng[1].t.rows[i]["tenure"] = IntV(10)
          /\ eng[1].t.rows[i]["TotalSpend"] = IntV(500)
          /\ eng[1].t.rows[i]["AvgMonthlySpend"] = IntV(50)
    /\ \E i \in 1..NRows(eng[1].t) :
          /\ eng[1].t.rows[i]["tenure"] = IntV(0)
          /\ eng[1].t.rows[i]["AvgMonthlySpend"] = IntV(0)

\* The table pass p of engineer_features was given
PassInput(p) == IF p = 1 THEN df ELSE eng[p - 1].t

\* The number a cell of a source column stands for, null when it is missing
\* or unparsable
NumericValue(t, i, c) == ToNumericSafe(t.rows[i][c])

\* The TotalSpend the selection rule names for row i of the input t: the
\* TotalCharges value when that column has a non-null value somewhere, else
\* MonthlyCharges x tenure when both are columns, else null
SelectedSpend(t, i) ==
    IF HasCol(t, "TotalCharges")
       /\ \E j \in 1..NRows(t) : ~IsNaN(NumericValue(t, j, "TotalCharges"))
    THEN NumericValue(t, i, "TotalCharges")
    ELSE IF HasCol(t, "MonthlyCharges") /\ HasCol(t, "tenure")
    THEN Mul(NumericValue(t, i, "MonthlyCharges"), NumericValue(t, i, "tenure"))
    ELSE NaN

\* C11: every pass of engineer_features gives each row the TotalSpend the
\* selection rule names for its input (TotalCharges if the column has a
\* non-null value, else MonthlyCharges x tenure, else null), with 0 in
\* place of a null (or, by the post-pass, infinite) result; and the rows
\* {tenure 0, MonthlyCharges 50, TotalCharges null} and {tenure 10,
\* TotalCharges 500} come out as (0, 0, "0-6") and (500, 50, "7-12").
C11_TotalSpendSelection ==
    \A p \in DOMAIN eng : eng[p].ok =>
        LET inp == PassInput(p)
            out == eng[p].t
        IN  \A i \in 1..NRows(inp) :
              LET sel == SelectedSpend(inp, i)
                  row == out.rows[i]
              IN  /\ row["TotalSpend"] = (IF IsNum(sel) THEN sel ELSE IntV(0))
                  /\ (/\ HasCol(inp, "tenure") /\ inp.rows[i]["tenure"] = IntV(0)
                      /\ HasCol(inp, "MonthlyCharges")
                      /\ inp.rows[i]["MonthlyCharges"] = IntV(50)
                      /\ HasCol(inp, "TotalCharges")
                      /\ IsNaN(inp.rows[i]["TotalCharges"]))
                     => /\ row["TotalSpend"] = IntV(0)
                        /\ row["AvgMonthlySpend"] = IntV(0)
                        /\ row["TenureGroup"] = Str("0-6")
                  /\ (/\ HasCol(inp, "tenure") /\ inp.rows[i]["tenure"] = IntV(10)
                      /\ HasCol(inp, "TotalCharges")
                      /\ inp.rows[i]["TotalCharges"] = IntV(500))
                     => /\ row["TotalSpend"] = IntV(500)
                        /\ row["AvgMonthlySpend"] = IntV(50)
                        /\ row["TenureGroup"] = Str("7-12")

\* C11 witness: a first pass over a table whose TotalCharges column is all
\* null, so that the fallback acts: the row {A1, tenure 0, MonthlyCharges
\* 50} gets TotalSpend 0 and "0-6", the row with tenure 10 gets 50 x 10.
C11_Witness ==
    /\ Len(eng) = 1 /\ eng[1].ok /\ NRows(df) = 2
    /\ HasCol(df, "TotalCharges") /\ HasCol(df, "MonthlyCharges") /\ HasCol(df, "tenure")
    /\ \A i \in 1..2 : IsNaN(df.rows[i]["TotalCharges"])
                        /\ df.rows[i]["MonthlyCharges"] = IntV(50)
    /\ df.rows[1]["customerID"] = Str("A1") /\ df.rows[1]["tenure"] = IntV(0)
    /\ df.rows[2]["tenure"] = IntV(10)
    /\ eng[1].t.rows[1]["TotalSpend"] = IntV(0)
    /\ eng[1].t.rows[1]["AvgMonthlySpend"] = IntV(0)
    /\ eng[1].t.rows[1]["TenureGroup"] = Str("0-6")
    /\ eng[1].t.rows[2]["TotalSpend"] = IntV(500)
    /\ eng[1].t.rows[2]["AvgMonthlySpend"] = IntV(50)

\* The bucket the intervals (-inf,6], (6,12], (12,24], (24,48], (48,inf)
\* give a finite tenure n/d
BucketOf(v) ==
    IF v.n <= 6 * v.d THEN "0-6"
    ELSE IF v.n <= 12 * v.d THEN "7-12"
    ELSE IF v.n <= 24 * v.d THEN "13-24"
    ELSE IF v.n <= 48 * v.d THEN "25-48"
    ELSE "48+"

\* C12: every pass of engineer_features gives a row with a finite tenure
\* the label of the right-closed interval the tenure lies in, and a row
\* whose tenure is absent (no tenure column, or no value in the row) the
\* label "Unknown".
C12_TenureBuckets ==
    \A p \in DOMAIN eng : eng[p].ok =>
        LET inp == PassInput(p)
            out == eng[p].t
        IN  \A i \in 1..NRows(inp) :
              LET group == out.rows[i]["TenureGroup"]
              IN  IF ~HasCol(inp, "tenure") THEN group = Str("Unknown")
                  ELSE LET v == NumericValue(inp, i, "tenure")
                       IN  /\ IsNaN(v) => group = Str("Unknown")
                           /\ IsNum(v) => group = Str(BucketOf(v))

(***************************************************************************)
(* Claims about the transform run (checked under SpecTransform)            *)
(***************************************************************************)
\* The last command was a transform run that got as far as the column cap
RanCap == last.cmd = "transform" /\ last.what \notin {"clean", "engineer"}

CoreSet ==
    {"customerID", "Churn", "TotalSpend", "AvgMonthlySpend", "TenureGroup",
     "NumAddons", "tenure", "MonthlyCharges", "TotalCharges"}

\* The columns of t by falling priority: the core set, then the other
\* numeric columns in table order, then the non-numeric ones in table order
PriorityOrder(t) ==
    SelectIn(t.cols, CoreSet)
    \o SelectIn(t.cols, {c \in Range(t.cols) \ CoreSet : t.dtype[c] \in {"int64", "float64"}})
    \o SelectIn(t.cols, {c \in Range(t.cols) \ CoreSet : t.dtype[c] \notin {"int64", "float64"}})

\* C1: of an engineered table with N columns the cap keeps exactly
\* MAX_SQLITE_COLS when N is larger, among them every core column the table
\* has, and drops exactly the tail of the priority order; when N is not
\* larger it drops nothing.
C1_ColumnBudget ==
    RanCap =>
        LET e == last.engineered
            w == last.written
            N == Len(e.cols)
            prio == PriorityOrder(e)
        IN  IF N > MAX_SQLITE_COLS
            THEN /\ Len(w.cols) = MAX_SQLITE_COLS
                 /\ Cardinality(Range(w.cols)) = MAX_SQLITE_COLS
                 /\ (CoreSet \cap Range(e.cols)) \subseteq Range(w.cols)
                 /\ Range(e.cols) \ Range(w.cols)
                        = {prio[i] : i \in (MAX_SQLITE_COLS + 1)..N}
            ELSE Range(w.cols) = Range(e.cols) /\ Len(w.cols) = N

\* C1 witness: a run whose engineered table exceeds the limit, that kept a
\* non-numeric column outside the core set and dropped another column.
C1_Witness ==
    /\ RanCap
    /\ Len(last.engineered.cols) > MAX_SQLITE_COLS
    /\ Len(last.written.cols) = MAX_SQLITE_COLS
    /\ \E c \in Range(last.written.cols) \ CoreSet :
          last.engineered.dtype[c] \notin {"int64", "float64"}
    /\ \E c \in Range(last.engineered.cols) : c \notin Range(last.written.cols)

\* C7: the table a successful run leaves in the store has the columns
\* customerID, Churn, TotalSpend, AvgMonthlySpend, TenureGroup, NumAddons
\* (those it has) first, then its other columns in the order of the
\* cleaned source, whether or not the cap dropped columns.
C7_StoredColumnOrder ==
    (last.cmd = "transform" /\ last.status = "ok") =>
        LET stored == db.table.cols
            front == SelectIn(<<"customerID", "Churn", "TotalSpend", "AvgMonthlySpend",
                                "TenureGroup", "NumAddons">>, Range(stored))
        IN  stored = front \o SelectIn(clean.t.cols, Range(stored) \ Range(front))

(***************************************************************************)
(* Claims about the store and the catalog commands (checked under Spec)    *)
(***************************************************************************)
\* C8: after a successful write_sqlite the store table has the columns and
\* the rows of that call's frame and nothing else, whatever the store held
\* before, and customerID is indexed, and Churn is when the frame has it.
C8_FullReplace ==
    (last.cmd = "transform" /\ last.status = "ok") =>
        LET w == last.written
        IN  /\ db.file /\ db.has_table
            /\ db.table.cols = w.cols
            /\ Len(db.table.rows) = NRows(w)
            /\ \A i \in 1..NRows(w) : \A c \in Range(w.cols) :
                   db.table.rows[i][c] = SqlCell(w.rows[i][c])
            /\ "customerID" \in db.indexes
            /\ (HasCol(w, "Churn") => "Churn" \in db.indexes)

\* C8 witness: a successful write over a store that held another table,
\* with a label column, written by an earlier run.
C8_Witness ==
    /\ last.cmd = "transform" /\ last.status = "ok"
    /\ last.before.has_table /\ last.before.table.rows # <<>>
    /\ last.before.table.cols # db.table.cols
    /\ "Churn" \in last.before.indexes
    /\ ~HasCol(last.written, "Churn")
    /\ db.table.rows # <<>>

\* C9: register and list end in a missing-catalog error when metadata.json
\* is absent and in a missing-store error when the store table is absent,
\* and export no catalog listing in either case.
C9_MissingResources ==
    last.cmd \in {"register", "list"} =>
        /\ ~catalog.exists =>
              /\ last.status = "FileNotFoundError" /\ last.what = "catalog"
              /\ ~last.exported
        /\ (catalog.exists /\ ~db.has_table) =>
              /\ last.status = "FileNotFoundError" /\ last.what = "db"
              /\ ~last.exported

\* C14: whenever a command ends in a missing-resource, validation,
\* empty-request or persistence failure, it has written a log entry (with
\* its stage tag) by the time the process exits, and the exit status is
\* not 0.
C14_FatalFailureLogged ==
    last.status \in {"FileNotFoundError", "ValueError", "OperationalError"} =>
        /\ last.logged
        /\ last.exit # 0

(***************************************************************************)
(* Claims about the retrieval commands (checked under SpecRetrieve)        *)
(***************************************************************************)
\* The last command was a retrieval with a well-formed request (at least
\* one feature; for online at least one identifier) against an existing
\* store table.
Retrieved ==
    /\ last.cmd \in {"training", "online"}
    /\ last.feats # <<>>
    /\ last.cmd = "online" => last.ids # <<>>
    /\ db.has_table

C5_Projection ==
    (Retrieved /\ \A f \in Range(last.feats) : InSeq(f, db.table.cols)) =>
        /\ last.status = "ok"
        /\ last.result.cols = <<"customerID">> \o last.feats

\* The identifiers, in table order, of the store rows whose customerID is
\* one of ids
RECURSIVE MatchingIds(_, _)
MatchingIds(rows, ids) ==
    IF rows = <<>> THEN <<>>
    ELSE (IF \E j \in DOMAIN ids : rows[1]["customerID"] = Str(ids[j])
          THEN <<rows[1]["customerID"]>> ELSE <<>>)
         \o MatchingIds(Tail(rows), ids)

\* C13: an online lookup with a valid feature list and at least one
\* identifier value returns exactly the store rows whose customerID is one
\* of the values, and the values are handed over as bound parameters only:
\* the query text ends in one "?" per value and is otherwise made of the
\* requested names, so it is the same for all value lists of one length.
C13_OnlineLookup ==
    (/\ last.cmd = "online" /\ last.feats # <<>> /\ last.ids # <<>>
     /\ db.has_table
     /\ \A f \in Range(last.feats) : InSeq(f, db.table.cols))
    => /\ last.status = "ok"
       /\ [r \in DOMAIN last.result.rows |-> last.result.rows[r][1]]
              = MatchingIds(db.table.rows, last.ids)
       /\ last.params = last.ids
       /\ last.sql = <<"SELECT", "customerID">> \o last.feats
                        \o <<"FROM", "customers_transformed", "WHERE", "customerID", "IN">>
                        \o [i \in DOMAIN last.ids |-> "?"]

=============================================================================
